---- MODULE Spec2Model ----
(***************************************************************************)
(* Model of src/app.py: a Streamlit page.  Every user interaction runs the *)
(* script top to bottom once ("a run"): the Find Program handler, the      *)
(* Create New Vector Store handler, list_vector_stores(), one row per      *)
(* listed store (Set Active, Delete Store, Show files) and the Upload      *)
(* handler, in that order.  st.rerun() abandons the run and starts a new   *)
(* one in which no button is pressed.  The remote service (vector stores,  *)
(* their file listings, the file objects) is part of the state; each       *)
(* remote call may succeed or raise.                                       *)
(***************************************************************************)
EXTENDS Integers, Sequences, FiniteSets, TLC

\* ---------------------------------------------------------------- bounds
MaxStores == 2      \* vector stores the remote service ever creates
MaxFiles == 2       \* file objects the remote service ever creates
MaxUpload == 2      \* files chosen in one upload
MaxReruns == 2      \* consecutive 'Vector store not found' failures
MaxEvents == 3      \* user interactions in one session
Latency == 44       \* seconds one listing call of the poll loop takes

\* ------------------------------------------------------ program constants
None == 0                   \* ACTIVE_VECTOR_STORE_ID = None
UploadTimeoutSec == 90      \* wait_until_file_indexed(..., timeout_sec=90)
PollInterval == 1           \* poll_interval: float = 1.0

StoreIds == 1..MaxStores
FileIds == 1..MaxFiles

VARIABLES
    apiKey,         \* st.session_state["OPENAI_API_KEY"]
    active,         \* st.session_state["ACTIVE_VECTOR_STORE_ID"]
    showFiles,      \* stores whose "Show files" checkbox is ticked
    vstores,        \* remote: the vector stores that exist
    nextStore,      \* remote: id the next created store gets
    vsfiles,        \* remote: store -> its file listing (file ids, in order)
    indexing,       \* remote: indexing status of the file being awaited ("" outside a wait)
    fobjs,          \* remote: file objects of the Files API
    nextFile,       \* remote: id the next created file object gets
    pc,             \* position of the run
    pressed,        \* the button this run was started by
    stores,         \* `stores` of line 159, the rows rendered
    ri,             \* index of the row being rendered
    refs,           \* `refs` of the Delete Store handler
    di,             \* index into refs
    deleted_files,  \* `deleted_files` of the Delete Store handler
    uploaded_files, \* number of files chosen in the uploader (named 1..n)
    ui,             \* index of the file being uploaded
    created,        \* `created.id` of the file being uploaded
    elapsed,        \* time.time() - start in wait_until_file_indexed
    results,        \* `results` of the Upload handler
    user_text,      \* the text area of line 30 as the Find Program handler read it
    resp,           \* the completion returned to Find Program
    output_text,    \* `output_text` of the Find Program handler
    citations,      \* `citations` of the Find Program handler
    msgs,           \* what the run has put on the page
    calls,          \* history: remote calls since the last user event
    reruns,         \* history: automatic not-found reruns since the last user event
    lastObs,        \* history: what the last poll saw of the awaited file
    parseFailed,    \* history: the structured traversal raised
    status,         \* `status` of line 306, what the wait returned
    deletedStores,  \* history: stores whose deletion call succeeded
    events          \* history: user interactions so far

session == <<apiKey, active, showFiles>>
remote == <<vstores, nextStore, vsfiles, indexing, fobjs, nextFile>>
delLocals == <<refs, di, deleted_files>>
upLocals == <<uploaded_files, ui, created, elapsed, results, lastObs, status>>
findLocals == <<user_text, resp, output_text, citations, parseFailed>>
vars == <<apiKey, active, showFiles, vstores, nextStore, vsfiles, indexing, fobjs,
          nextFile, pc, pressed, stores, ri, refs, di, deleted_files,
          uploaded_files, ui, created, elapsed, results, user_text, resp, output_text,
          citations, msgs, calls, reruns, lastObs, parseFailed, status,
          deletedStores, events>>

\* ------------------------------------------------------------- helpers
\* client of line 16: present exactly when the key is non-empty
\* variant: a client object exists whatever the key is
ClientAlways == TRUE

Client == apiKey # ""

\* variant: the first store stands in for an unset active id
ActiveOrFirst == IF active = None THEN 1 ELSE active

get_active_vector_store_id == active

Msg(kind, tag, arg) == [kind |-> kind, tag |-> tag, arg |-> arg]
Call(op, vs, fid, ok) == [op |-> op, vs |-> vs, fid |-> fid, ok |-> ok]
Btn(b, vs, fid) == [btn |-> b, vs |-> vs, fid |-> fid]
NoBtn == Btn("none", 0, 0)

RECURSIVE SetToSeq(_)
SetToSeq(S) == IF S = {} THEN <<>>
               ELSE LET m == CHOOSE x \in S : \A y \in S : x <= y
                    IN <<m>> \o SetToSeq(S \ {m})

Range(s) == {s[i] : i \in 1..Len(s)}
Remove(s, x) == SelectSeq(s, LAMBDA y : y # x)

\* ------------------------------------------------- completion responses
\* A completion as the traversal of lines 73-84 reads it.  `output` and
\* `content` are "list" (iterable), "none" (None) or "bad" (a value that
\* cannot be iterated); a block's `text` is "str", "none" (None), "missing"
\* (no such attribute) or "int" (a non-string); `anns` likewise.
Ann(t, fid, fn) == [type |-> t, file_id |-> fid, filename |-> fn]
Block(t, text, val, anns, as) ==
    [type |-> t, text |-> text, val |-> val, anns |-> anns, annotations |-> as]
Item(t, content, bs) == [type |-> t, content |-> content, blocks |-> bs]
Response(output, is) == [output |-> output, items |-> is]

CitA == Ann("file_citation", "f1", "a.pdf")
UrlA == Ann("url_citation", "", "")
BlockX == Block("output_text", "str", "X", "list", <<CitA>>)
BlockY == Block("output_text", "str", "Y", "none", <<>>)
BlockU == Block("output_text", "str", "Z", "list", <<UrlA>>)
BlockNoText == Block("output_text", "missing", "", "none", <<>>)
BlockIntText == Block("output_text", "int", "", "none", <<>>)
BlockNoneText == Block("output_text", "none", "", "none", <<>>)
BlockBadAnns == Block("output_text", "str", "W", "bad", <<>>)
BlockRefusal == Block("refusal", "missing", "", "none", <<>>)
Message(bs) == Item("message", "list", bs)
ToolCall == Item("file_search_call", "none", <<>>)

NoResp == Response("unset", <<>>)
Responses ==
    { Response("none", <<>>),
      Response("bad", <<>>),
      Response("list", <<>>),
      Response("list", <<Message(<<BlockX>>)>>),
      Response("list", <<ToolCall, Message(<<BlockX, BlockY>>)>>),
      Response("list", <<Message(<<BlockU, BlockNoneText>>)>>),
      Response("list", <<Message(<<BlockRefusal>>)>>),
      Response("list", <<Message(<<BlockNoText>>)>>),
      Response("list", <<Message(<<BlockY, BlockIntText>>)>>),
      Response("list", <<Message(<<BlockX, BlockNoText>>)>>),
      Response("list", <<Message(<<BlockBadAnns>>)>>),
      Response("list", <<Message(<<BlockX>>), Item("message", "bad", <<>>)>>),
      Response("list", <<Item("message", "none", <<>>)>>) }

\* str(response): the repr of the whole completion, never empty
RECURSIVE BlocksRepr(_)
BlocksRepr(bs) ==
    IF bs = <<>> THEN <<>>
    ELSE <<Head(bs).type, Head(bs).val>> \o BlocksRepr(Tail(bs))
RECURSIVE ItemsRepr(_)
ItemsRepr(is) ==
    IF is = <<>> THEN <<>>
    ELSE <<Head(is).type, Head(is).content>> \o BlocksRepr(Head(is).blocks)
         \o ItemsRepr(Tail(is))
Stringify(r) == <<"Response(output=", r.output>> \o ItemsRepr(r.items) \o <<")">>

\* lines 79-84: the annotations of one block
RECURSIVE AnnLoop(_, _)
AnnLoop(anns, cits) ==
    IF anns = <<>> THEN cits
    ELSE AnnLoop(Tail(anns),
                 IF Head(anns).type = "file_citation"
                 THEN Append(cits, [file_id |-> Head(anns).file_id,
                                    filename |-> Head(anns).filename])
                 ELSE cits)

\* lines 76-84 for one content block; st = [text, cits, raised]
BlockStep(st, b) ==
    IF st.raised \/ b.type # "output_text" THEN st
    ELSE IF b.text \in {"missing", "int"}
         THEN [st EXCEPT !.raised = TRUE]
    ELSE LET t == IF b.text = "none" THEN st.text ELSE Append(st.text, b.val)
         IN IF b.anns = "bad" THEN [st EXCEPT !.text = t, !.raised = TRUE]
            ELSE IF b.anns = "none" THEN [st EXCEPT !.text = t]
            ELSE [st EXCEPT !.text = t, !.cits = AnnLoop(b.annotations, st.cits)]

RECURSIVE BlockLoop(_, _)
BlockLoop(st, bs) ==
    IF bs = <<>> THEN st ELSE BlockLoop(BlockStep(st, Head(bs)), Tail(bs))

\* lines 74-75 for one output item
ItemStep(st, it) ==
    IF st.raised \/ it.type # "message" THEN st
    ELSE IF it.content = "bad" THEN [st EXCEPT !.raised = TRUE]
    ELSE IF it.content = "none" THEN st
    ELSE BlockLoop(st, it.blocks)

RECURSIVE ItemLoop(_, _)
ItemLoop(st, is) ==
    IF is = <<>> THEN st ELSE ItemLoop(ItemStep(st, Head(is)), Tail(is))

\* lines 73-84: the structured traversal
Traverse(r) ==
    LET st0 == [text |-> <<>>, cits |-> <<>>, raised |-> FALSE]
    IN IF r.output = "bad" THEN [st0 EXCEPT !.raised = TRUE]
       ELSE IF r.output = "none" THEN st0
       ELSE ItemLoop(st0, r.items)

\* lines 70-87: output_text and citations after the try/except
Extract(r) ==
    LET st == Traverse(r)
    IN [text |-> IF st.raised THEN Stringify(r) ELSE st.text,
        cits |-> st.cits,
        raised |-> st.raised]

\* user_text.strip(), the text a sequence of characters
RECURSIVE LStrip(_)
LStrip(t) == IF t # <<>> /\ Head(t) = " " THEN LStrip(Tail(t)) ELSE t
RECURSIVE RStrip(_)
RStrip(t) == IF t # <<>> /\ t[Len(t)] = " " THEN RStrip(SubSeq(t, 1, Len(t) - 1)) ELSE t
Strip(t) == RStrip(LStrip(t))
UserTexts == {<<>>, <<" ">>, <<" ", "e", " ">>}

\* ---------------------------------------------------------------- Init
\* The session starts with the defaults of lines 8-13.  The account behind
\* the key outlives sessions: it is empty, or it holds one store with two
\* indexed files from an earlier session.
Accounts ==
    { [vstores |-> {}, vsfiles |-> [s \in StoreIds |-> <<>>], fobjs |-> {},
       nextStore |-> 1, nextFile |-> 1],
      [vstores |-> {1}, vsfiles |-> [s \in StoreIds |-> IF s = 1 THEN <<1, 2>> ELSE <<>>],
       fobjs |-> {1, 2}, nextStore |-> 2, nextFile |-> 3] }

Init ==
    /\ apiKey = ""
    /\ active = None
    /\ showFiles = {}
    /\ \E a \in Accounts :
         /\ vstores = a.vstores
         /\ nextStore = a.nextStore
         /\ vsfiles = a.vsfiles
         /\ fobjs = a.fobjs
         /\ nextFile = a.nextFile
    /\ indexing = ""
    /\ pc = "idle"
    /\ pressed = NoBtn
    /\ stores = <<>>
    /\ ri = 0
    /\ refs = <<>>
    /\ di = 0
    /\ deleted_files = 0
    /\ uploaded_files = 0
    /\ ui = 0
    /\ created = 0
    /\ elapsed = 0
    /\ results = <<>>
    /\ user_text = <<>>
    /\ resp = NoResp
    /\ output_text = <<>>
    /\ citations = <<>>
    /\ msgs = {}
    /\ calls = <<>>
    /\ reruns = 0
    /\ lastObs = "none"
    /\ parseFailed = FALSE
    /\ status = ""
    /\ deletedStores = {}
    /\ events = 0

\* A user event starts a new run: the page is cleared and the locals of
\* the previous run are gone.
ResetDel == refs' = <<>> /\ di' = 0 /\ deleted_files' = 0
ResetUp == /\ uploaded_files' = 0 /\ ui' = 0 /\ created' = 0 /\ elapsed' = 0
           /\ results' = <<>> /\ lastObs' = "none" /\ status' = ""
ResetResp == /\ resp' = NoResp /\ output_text' = <<>> /\ citations' = <<>>
             /\ parseFailed' = FALSE
ResetFind == user_text' = <<>> /\ ResetResp
ResetRows == stores' = <<>> /\ ri' = 0

\* one more interaction of the session
UserEvent == events < MaxEvents /\ events' = events + 1

\* st.rerun(): the run is abandoned, the next one has no button pressed
Rerun == /\ pc' = "list"
         /\ pressed' = NoBtn
         /\ msgs' = {}

\* ------------------------------------------------- the Settings inputs
\* lines 111-115: the key typed into the sidebar; the run it starts presses
\* no button
SetApiKey(k) ==
    /\ pc = "idle"
    /\ UserEvent
    /\ k # apiKey
    /\ apiKey' = k
    /\ pc' = "list"
    /\ pressed' = NoBtn
    /\ msgs' = {} /\ calls' = <<>> /\ reruns' = 0
    /\ ResetDel /\ ResetUp /\ ResetFind /\ ResetRows
    /\ UNCHANGED <<active, showFiles, remote, deletedStores>>

\* ------------------------------------------------- Find Program, 36-102
FindMsgs(ex) ==
    IF ex.text # <<>>
    THEN {Msg("success", "result", 0)}
         \cup (IF ex.cits # <<>> THEN {Msg("caption", "citations", Len(ex.cits))} ELSE {})
    ELSE {Msg("info", "no_output", 0)}

FindProgram(text) ==
    /\ pc = "idle"
    /\ UserEvent
    /\ pc' = "list"
    /\ pressed' = Btn("find", 0, 0)
    /\ user_text' = text
    /\ reruns' = 0
    /\ ResetDel /\ ResetUp /\ ResetRows
    /\ UNCHANGED <<session, remote, deletedStores>>
    /\ IF Strip(text) = <<>>
       THEN /\ msgs' = {Msg("warning", "no_input", 0)}
            /\ calls' = <<>>
            /\ ResetResp
       ELSE IF ~Client
       THEN /\ msgs' = {Msg("error", "api_key_not_set", 0)}
            /\ calls' = <<>>
            /\ ResetResp
       ELSE IF get_active_vector_store_id = None
       THEN /\ msgs' = {Msg("error", "no_active_store", 0)}
            /\ calls' = <<>>
            /\ ResetResp
       ELSE \/ /\ calls' = <<Call("responses.create", active, 0, FALSE)>>
               /\ msgs' = {Msg("error", "find_failed", 0)}
               /\ ResetResp
            \/ \E r \in Responses :
                 LET ex == Extract(r)
                 IN /\ calls' = <<Call("responses.create", active, 0, TRUE)>>
                    /\ resp' = r
                    /\ output_text' = ex.text
                    /\ citations' = ex.cits
                    /\ parseFailed' = ex.raised
                    /\ msgs' = FindMsgs(ex)

\* ---------------------------------- Create New Vector Store, 125-134
CreateStore ==
    /\ pc = "idle"
    /\ UserEvent
    /\ pc' = "list"
    /\ pressed' = Btn("create", 0, 0)
    /\ reruns' = 0
    /\ ResetDel /\ ResetUp /\ ResetFind /\ ResetRows
    /\ UNCHANGED <<apiKey, showFiles, vsfiles, indexing, fobjs, nextFile, deletedStores>>
    /\ IF apiKey = ""
       THEN /\ msgs' = {Msg("error", "set_api_key", 0)}
            /\ calls' = <<>>
            /\ UNCHANGED <<active, vstores, nextStore>>
       ELSE \/ /\ nextStore <= MaxStores
               /\ calls' = <<Call("vector_stores.create", nextStore, 0, TRUE)>>
               /\ vstores' = vstores \cup {nextStore}
               /\ nextStore' = nextStore + 1
               /\ active' = nextStore
               /\ msgs' = {Msg("success", "created", nextStore)}
            \/ /\ calls' = <<Call("vector_stores.create", 0, 0, FALSE)>>
               /\ msgs' = {Msg("error", "create_failed", 0)}
               /\ UNCHANGED <<active, vstores, nextStore>>

\* ------------------------------------------------- Refresh, 139-140
Refresh ==
    /\ pc = "idle"
    /\ UserEvent
    /\ Rerun
    /\ calls' = <<>> /\ reruns' = 0
    /\ ResetDel /\ ResetUp /\ ResetFind /\ ResetRows
    /\ UNCHANGED <<session, remote, deletedStores>>

\* ----------------------------------------- list_vector_stores, 142-156
\* "Vector store not found" in str(e)
IsNotFound(e) == e = "Vector store not found"

ListStores ==
    /\ pc = "list"
    /\ UNCHANGED events
    \* the locals of the Find Program handler are not read past line 102
    /\ ResetFind
    /\ UNCHANGED <<session, remote, delLocals, upLocals, deletedStores>>
    /\ IF apiKey = "" \/ ~Client
       THEN /\ msgs' = msgs \cup {Msg("info", "set_api_key", 0)}
            /\ stores' = <<>> /\ ri' = 1
            /\ pc' = "rows"
            /\ UNCHANGED <<calls, reruns, pressed>>
       ELSE \/ /\ calls' = Append(calls, Call("vector_stores.list", 0, 0, TRUE))
               /\ stores' = SetToSeq(vstores) /\ ri' = 1
               /\ pc' = "rows"
               /\ UNCHANGED <<msgs, reruns, pressed>>
            \/ \E e \in {"Vector store not found", "Connection error"} :
                 /\ calls' = Append(calls, Call("vector_stores.list", 0, 0, FALSE))
                 /\ IF IsNotFound(e)
                    THEN /\ reruns < MaxReruns
                         /\ reruns' = reruns + 1
                         /\ Rerun
                         /\ UNCHANGED <<stores, ri>>
                    ELSE /\ msgs' = msgs \cup {Msg("error", "list_failed", 0)}
                         /\ stores' = <<>> /\ ri' = 1
                         /\ pc' = "rows"
                         /\ UNCHANGED <<reruns, pressed>>

\* ------------------------------------------- the buttons of the rows
\* A row button can be pressed when the last run rendered its row.
PressSetActive(vs) ==
    /\ pc = "idle"
    /\ UserEvent
    /\ vs \in Range(stores)
    /\ pressed' = Btn("set_active", vs, 0)
    /\ pc' = "list"
    /\ msgs' = {} /\ calls' = <<>> /\ reruns' = 0
    /\ ResetDel /\ ResetUp /\ ResetFind /\ ResetRows
    /\ UNCHANGED <<session, remote, deletedStores>>

PressDeleteStore(vs) ==
    /\ pc = "idle"
    /\ UserEvent
    /\ vs \in Range(stores)
    /\ pressed' = Btn("delete_store", vs, 0)
    /\ pc' = "list"
    /\ msgs' = {} /\ calls' = <<>> /\ reruns' = 0
    /\ ResetDel /\ ResetUp /\ ResetFind /\ ResetRows
    /\ UNCHANGED <<session, remote, deletedStores>>

\* line 213: the checkbox keeps its value from run to run
ToggleShowFiles(vs) ==
    /\ pc = "idle"
    /\ UserEvent
    /\ vs \in Range(stores)
    /\ showFiles' = IF vs \in showFiles THEN showFiles \ {vs} ELSE showFiles \cup {vs}
    /\ pressed' = NoBtn
    /\ pc' = "list"
    /\ msgs' = {} /\ calls' = <<>> /\ reruns' = 0
    /\ ResetDel /\ ResetUp /\ ResetFind /\ ResetRows
    /\ UNCHANGED <<apiKey, active, remote, deletedStores>>

\* line 238: the Delete button of a file row
PressFileDelete(vs, fid) ==
    /\ pc = "idle"
    /\ UserEvent
    /\ vs \in Range(stores) \cap showFiles
    /\ fid \in Range(vsfiles[vs])
    /\ pressed' = Btn("file_delete", vs, fid)
    /\ pc' = "list"
    /\ msgs' = {} /\ calls' = <<>> /\ reruns' = 0
    /\ ResetDel /\ ResetUp /\ ResetFind /\ ResetRows
    /\ UNCHANGED <<session, remote, deletedStores>>

\* line 282, with n files chosen in the uploader of line 275
PressUpload(n) ==
    /\ pc = "idle"
    /\ UserEvent
    /\ pressed' = Btn("upload", 0, 0)
    /\ pc' = "list"
    /\ msgs' = {} /\ calls' = <<>> /\ reruns' = 0
    /\ uploaded_files' = n /\ ui' = 0 /\ created' = 0 /\ elapsed' = 0
    /\ results' = <<>> /\ lastObs' = "none" /\ status' = ""
    /\ ResetDel /\ ResetFind /\ ResetRows
    /\ UNCHANGED <<session, remote, deletedStores>>

\* ------------------------------------------------ one row, 160-210
\* line 213-214: after the buttons of row i, its files are shown when the
\* checkbox is ticked; otherwise the loop goes to the next row
AfterButtons(vs) ==
    IF vs \in showFiles THEN pc' = "show" /\ ri' = ri
    ELSE pc' = "rows" /\ ri' = ri + 1

\* lines 166-171: the session's active id after the row's Set Active part
ActiveAfterRow(vs) ==
    IF vs # active /\ pressed = Btn("set_active", vs, 0) THEN vs ELSE active

\* lines 179-184: the refs the Delete Store handler works on
DeleteRefs(listing, ok) == IF ok THEN listing ELSE <<>>

Row ==
    /\ pc = "rows"
    /\ UNCHANGED events
    /\ ri <= Len(stores)
    /\ LET vs == stores[ri]
       IN /\ active' = ActiveAfterRow(vs)
          /\ IF pressed = Btn("delete_store", vs, 0)
             THEN IF ~Client
                  THEN /\ msgs' = msgs \cup {Msg("error", "set_api_key", 0)}
                       /\ AfterButtons(vs)
                       /\ UNCHANGED <<calls, delLocals>>
                  ELSE \E ok \in BOOLEAN :
                         /\ calls' = Append(calls, Call("vector_stores.files.list", vs, 0, ok))
                         /\ refs' = DeleteRefs(vsfiles[vs], ok)
                         /\ di' = 1
                         /\ deleted_files' = 0
                         /\ pc' = "del_loop"
                         /\ UNCHANGED <<msgs, ri>>
             ELSE /\ msgs' = IF active' # active
                             THEN msgs \cup {Msg("success", "active_set", vs)}
                             ELSE msgs
                  /\ AfterButtons(vs)
                  /\ UNCHANGED <<calls, delLocals>>
    /\ UNCHANGED <<apiKey, showFiles, remote, pressed, stores, upLocals, findLocals,
                   reruns, deletedStores>>

\* variant: a failed detach is not caught at line 193 and reaches the
\* except of line 209, so the handler ends there
DeleteFileStepAbort ==
    /\ pc = "del_loop"
    /\ UNCHANGED events
    /\ di <= Len(refs)
    /\ LET vs == stores[ri]
           fid == refs[di]
       IN \/ /\ calls' = Append(calls, Call("vector_stores.files.delete", vs, fid, FALSE))
             /\ msgs' = msgs \cup {Msg("error", "delete_store_failed", vs)}
             /\ AfterButtons(vs)
             /\ UNCHANGED <<vsfiles, fobjs, deleted_files, di>>
          \/ \E okDelete \in BOOLEAN :
               /\ fid \in Range(vsfiles[vs])
               /\ okDelete => fid \in fobjs
               /\ calls' = calls \o <<Call("vector_stores.files.delete", vs, fid, TRUE),
                                      Call("files.delete", 0, fid, okDelete)>>
               /\ vsfiles' = [vsfiles EXCEPT ![vs] = Remove(vsfiles[vs], fid)]
               /\ fobjs' = IF okDelete THEN fobjs \ {fid} ELSE fobjs
               /\ deleted_files' = IF okDelete THEN deleted_files + 1 ELSE deleted_files
               /\ msgs' = IF okDelete THEN msgs
                          ELSE msgs \cup {Msg("warning", "file_delete_failed", fid)}
               /\ di' = di + 1
               /\ UNCHANGED <<pc, ri>>
    /\ UNCHANGED <<session, vstores, nextStore, indexing, nextFile, pressed, stores,
                   refs, upLocals, findLocals, reruns, deletedStores>>

\* lines 186-200: one file of the store being deleted
DeleteFileStep ==
    /\ pc = "del_loop"
    /\ UNCHANGED events
    /\ di <= Len(refs)
    /\ LET vs == stores[ri]
           fid == refs[di]
       IN \E okDetach \in BOOLEAN, okDelete \in BOOLEAN :
            /\ okDetach => fid \in Range(vsfiles[vs])
            /\ okDelete => fid \in fobjs
            /\ calls' = calls \o <<Call("vector_stores.files.delete", vs, fid, okDetach),
                                   Call("files.delete", 0, fid, okDelete)>>
            /\ vsfiles' = IF okDetach
                          THEN [vsfiles EXCEPT ![vs] = Remove(vsfiles[vs], fid)]
                          ELSE vsfiles
            /\ fobjs' = IF okDelete THEN fobjs \ {fid} ELSE fobjs
            /\ deleted_files' = IF okDelete THEN deleted_files + 1 ELSE deleted_files
            /\ msgs' = IF okDelete THEN msgs
                       ELSE msgs \cup {Msg("warning", "file_delete_failed", fid)}
    /\ di' = di + 1
    /\ UNCHANGED <<session, vstores, nextStore, indexing, nextFile, pc, pressed, stores,
                   ri, refs, upLocals, findLocals, reruns, deletedStores>>

\* variant: the active id is cleared whichever store was deleted
ActiveClearedAlways(vs) == None

\* lines 205-206: the active id after the store's deletion succeeded
ActiveAfterDelete(vs) ==
    IF get_active_vector_store_id = vs THEN None ELSE active

\* lines 202-210: the store itself
DeleteStoreStep ==
    /\ pc = "del_loop"
    /\ UNCHANGED events
    /\ di > Len(refs)
    /\ LET vs == stores[ri]
       IN \/ /\ calls' = Append(calls, Call("vector_stores.delete", vs, 0, TRUE))
             /\ vstores' = vstores \ {vs}
             /\ vsfiles' = [vsfiles EXCEPT ![vs] = <<>>]
             /\ active' = ActiveAfterDelete(vs)
             /\ deletedStores' = deletedStores \cup {vs}
             /\ Rerun
             /\ UNCHANGED ri
          \/ /\ calls' = Append(calls, Call("vector_stores.delete", vs, 0, FALSE))
             /\ msgs' = msgs \cup {Msg("error", "delete_store_failed", vs)}
             /\ AfterButtons(vs)
             /\ UNCHANGED <<vstores, vsfiles, active, deletedStores, pressed>>
    /\ UNCHANGED <<apiKey, showFiles, nextStore, indexing, fobjs, nextFile, stores,
                   delLocals, upLocals, findLocals, reruns>>

\* --------------------------------------------- Show files, 213-251
\* lines 229-232, one per file row: the lookup finds the files that exist
Retrieves(fl) == [i \in 1..Len(fl) |-> Call("files.retrieve", 0, fl[i], fl[i] \in fobjs)]
IndexOf(fl, x) == CHOOSE i \in 1..Len(fl) : fl[i] = x

ShowFiles ==
    /\ pc = "show"
    /\ UNCHANGED events
    /\ LET vs == stores[ri]
           fl == vsfiles[vs]
           listed(ok) == Call("vector_stores.files.list", vs, 0, ok)
       IN IF ~Client
          THEN /\ msgs' = msgs \cup {Msg("info", "set_api_key", 0)}
               /\ ri' = ri + 1 /\ pc' = "rows"
               /\ UNCHANGED <<calls, vsfiles, pressed, reruns>>
          ELSE \/ \* the listing raised
                  \E e \in {"Vector store not found", "Connection error"} :
                    /\ calls' = Append(calls, listed(FALSE))
                    /\ IF IsNotFound(e)
                       THEN /\ reruns < MaxReruns
                            /\ reruns' = reruns + 1
                            /\ Rerun
                            /\ UNCHANGED <<ri, vsfiles>>
                       ELSE /\ msgs' = msgs \cup {Msg("error", "list_files_failed", vs)}
                            /\ ri' = ri + 1 /\ pc' = "rows"
                            /\ UNCHANGED <<vsfiles, pressed, reruns>>
               \/ \* listed, and no file Delete button of this row is pressed
                  /\ ~(pressed.btn = "file_delete" /\ pressed.vs = vs
                       /\ pressed.fid \in Range(fl))
                  /\ calls' = Append(calls, listed(TRUE)) \o Retrieves(fl)
                  /\ msgs' = IF fl = <<>> THEN msgs \cup {Msg("write", "no_files", vs)}
                             ELSE msgs
                  /\ ri' = ri + 1 /\ pc' = "rows"
                  /\ UNCHANGED <<vsfiles, pressed, reruns>>
               \/ \* listed, and the Delete button of file pressed.fid is pressed
                  /\ pressed.btn = "file_delete" /\ pressed.vs = vs
                  /\ pressed.fid \in Range(fl)
                  /\ LET k == IndexOf(fl, pressed.fid)
                         del(ok) == Call("vector_stores.files.delete", vs, pressed.fid, ok)
                     IN \/ /\ calls' = Append(calls, listed(TRUE))
                                       \o SubSeq(Retrieves(fl), 1, k) \o <<del(TRUE)>>
                           /\ vsfiles' = [vsfiles EXCEPT ![vs] = Remove(fl, pressed.fid)]
                           /\ Rerun
                           /\ UNCHANGED <<ri, reruns>>
                        \/ /\ calls' = Append(calls, listed(TRUE))
                                       \o SubSeq(Retrieves(fl), 1, k) \o <<del(FALSE)>>
                                       \o SubSeq(Retrieves(fl), k + 1, Len(fl))
                           /\ msgs' = msgs \cup {Msg("error", "file_delete_failed", pressed.fid)}
                           /\ ri' = ri + 1 /\ pc' = "rows"
                           /\ UNCHANGED <<vsfiles, pressed, reruns>>
    /\ UNCHANGED <<session, vstores, nextStore, indexing, fobjs, nextFile, stores,
                   delLocals, upLocals, findLocals, deletedStores>>

\* ------------------------------------ wait_until_file_indexed, 256-272
\* line 260-261: the listing of the active store as the poll reads it
\* The awaited file shows the status `mine`; the other files of the store
\* show the status `others`, whatever it is.
Statuses == {"in_progress", "completed", "finished", "failed", "error", "cancelled"}
Listing(vs, mine, others) ==
    [i \in 1..Len(vsfiles[vs]) |->
        [id |-> vsfiles[vs][i],
         status |-> IF vsfiles[vs][i] = created THEN mine ELSE others]]

\* The remote service indexes the attached file while the page waits: at
\* the time of a poll a file still in progress may have reached any
\* status, and a file that left "in_progress" keeps its status.
IndexedNow == IF indexing = "in_progress" THEN Statuses ELSE {indexing}
\* the statuses the other files of the active store may show
OtherStatuses ==
    IF Range(vsfiles[active]) \ {created} = {} THEN {"completed"} ELSE Statuses

\* variant: the scan does not compare the entry's id with file_id
RECURSIVE ScanAnyFile(_, _)
ScanAnyFile(data, file_id) ==
    IF data = <<>> THEN ""
    ELSE LET f == Head(data)
         IN IF f.status \in {"completed", "finished"} THEN "completed"
            ELSE IF f.status \in {"failed", "error"} THEN f.status
            ELSE ScanAnyFile(Tail(data), file_id)

\* lines 262-268: the scan of one listing; "" when the loop falls through
RECURSIVE ScanListing(_, _)
ScanListing(data, file_id) ==
    IF data = <<>> THEN ""
    ELSE LET f == Head(data)
         IN IF f.id = file_id /\ f.status \in {"completed", "finished"} THEN "completed"
            ELSE IF f.id = file_id /\ f.status \in {"failed", "error"} THEN f.status
            ELSE ScanListing(Tail(data), file_id)

\* variant: the loop still runs when the elapsed time equals the timeout
WithinTimeoutInclusive(t, timeout_sec) == t <= timeout_sec

\* line 258: the loop condition
WithinTimeout(t, timeout_sec) == t < timeout_sec

\* what a poll shows of the awaited file, stated on the listing as a set
Observed(data, file_id) ==
    LET mine == {data[i].status : i \in {j \in 1..Len(data) : data[j].id = file_id}}
    IN IF mine = {} THEN "absent"
       ELSE CHOOSE st \in mine : TRUE

\* ------------------------------------------------- Upload, 282-312
\* The loop of line 160 is over and the run reaches line 282.
UploadStart ==
    /\ pc = "rows"
    /\ ri > Len(stores)
    /\ UNCHANGED events
    /\ IF pressed.btn # "upload"
       THEN /\ pc' = "idle"
            /\ UNCHANGED <<msgs, ui>>
       ELSE IF uploaded_files = 0
       THEN /\ msgs' = msgs \cup {Msg("warning", "choose_files", 0)}
            /\ pc' = "idle"
            /\ UNCHANGED ui
       ELSE IF get_active_vector_store_id = None
       THEN /\ msgs' = msgs \cup {Msg("error", "no_active_store", 0)}
            /\ pc' = "idle"
            /\ UNCHANGED ui
       ELSE IF ~Client
       THEN /\ msgs' = msgs \cup {Msg("error", "set_api_key", 0)}
            /\ pc' = "idle"
            /\ UNCHANGED ui
       ELSE /\ pc' = "up_file"
            /\ ui' = 1
            /\ UNCHANGED msgs
    /\ UNCHANGED <<session, remote, pressed, stores, ri, delLocals, uploaded_files,
                   created, elapsed, results, lastObs, status, findLocals, calls, reruns,
                   deletedStores>>

\* variant: a failed files.create ends the loop over the chosen files
UploadCreateBreak ==
    /\ pc = "up_file"
    /\ UNCHANGED events
    /\ ui <= uploaded_files
    /\ \/ /\ nextFile <= MaxFiles
          /\ calls' = Append(calls, Call("files.create", ui, nextFile, TRUE))
          /\ created' = nextFile
          /\ fobjs' = fobjs \cup {nextFile}
          /\ nextFile' = nextFile + 1
          /\ pc' = "up_attach"
          /\ UNCHANGED <<msgs, ui>>
       \/ /\ calls' = Append(calls, Call("files.create", ui, 0, FALSE))
          /\ msgs' = msgs \cup {Msg("error", "upload_failed", ui)}
          /\ ui' = uploaded_files + 1
          /\ UNCHANGED <<created, fobjs, nextFile, pc>>
    /\ UNCHANGED <<session, vstores, nextStore, vsfiles, indexing, pressed, stores, ri,
                   delLocals, uploaded_files, elapsed, results, lastObs, status,
                   findLocals, reruns, deletedStores>>

\* lines 295-297: the file object is created
UploadCreate ==
    /\ pc = "up_file"
    /\ UNCHANGED events
    /\ ui <= uploaded_files
    /\ \/ /\ nextFile <= MaxFiles
          /\ calls' = Append(calls, Call("files.create", ui, nextFile, TRUE))
          /\ created' = nextFile
          /\ fobjs' = fobjs \cup {nextFile}
          /\ nextFile' = nextFile + 1
          /\ pc' = "up_attach"
          /\ UNCHANGED <<msgs, ui>>
       \/ /\ calls' = Append(calls, Call("files.create", ui, 0, FALSE))
          /\ msgs' = msgs \cup {Msg("error", "upload_failed", ui)}
          /\ ui' = ui + 1
          /\ UNCHANGED <<created, fobjs, nextFile, pc>>
    /\ UNCHANGED <<session, vstores, nextStore, vsfiles, indexing, pressed, stores, ri,
                   delLocals, uploaded_files, elapsed, results, lastObs, status,
                   findLocals, reruns, deletedStores>>

\* variant: the file object is deleted again when the attach fails
UploadAttachCleanup ==
    /\ pc = "up_attach"
    /\ UNCHANGED events
    /\ LET vs == get_active_vector_store_id
       IN \/ /\ vs \in vstores
             /\ calls' = Append(calls, Call("vector_stores.files.create", vs, created, TRUE))
             /\ vsfiles' = [vsfiles EXCEPT ![vs] = Append(vsfiles[vs], created)]
             /\ indexing' = "in_progress"
             /\ elapsed' = 0
             /\ lastObs' = "none"
             /\ pc' = "wait"
             /\ UNCHANGED <<msgs, ui, fobjs>>
          \/ /\ calls' = Append(calls, Call("vector_stores.files.create", vs, created, FALSE))
             /\ msgs' = msgs \cup {Msg("error", "upload_failed", ui)}
             /\ fobjs' = fobjs \ {created}
             /\ ui' = ui + 1
             /\ pc' = "up_file"
             /\ UNCHANGED <<vsfiles, indexing, elapsed, lastObs>>
    /\ UNCHANGED <<session, vstores, nextStore, nextFile, pressed, stores, ri,
                   delLocals, uploaded_files, created, results, status, findLocals,
                   reruns, deletedStores>>

\* lines 300-303: the file is attached to the active store; on failure the
\* except of line 308 reports it and the loop goes on
UploadAttach ==
    /\ pc = "up_attach"
    /\ UNCHANGED events
    /\ LET vs == get_active_vector_store_id
       IN \/ /\ vs \in vstores
             /\ calls' = Append(calls, Call("vector_stores.files.create", vs, created, TRUE))
             /\ vsfiles' = [vsfiles EXCEPT ![vs] = Append(vsfiles[vs], created)]
             /\ indexing' = "in_progress"
             /\ elapsed' = 0
             /\ lastObs' = "none"
             /\ pc' = "wait"
             /\ UNCHANGED <<msgs, ui>>
          \/ /\ calls' = Append(calls, Call("vector_stores.files.create", vs, created, FALSE))
             /\ msgs' = msgs \cup {Msg("error", "upload_failed", ui)}
             /\ ui' = ui + 1
             /\ pc' = "up_file"
             /\ UNCHANGED <<vsfiles, indexing, elapsed, lastObs>>
    /\ UNCHANGED <<session, vstores, nextStore, fobjs, nextFile, pressed, stores, ri,
                   delLocals, uploaded_files, created, results, status, findLocals,
                   reruns, deletedStores>>

\* lines 258-271: one iteration of the loop.  The listing call takes some
\* seconds and either raises or returns the active store's listing, in
\* which the new file may not show yet; the iteration returns a status or
\* sleeps poll_interval.
WaitPoll ==
    /\ pc = "wait"
    /\ UNCHANGED events
    /\ WithinTimeout(elapsed, UploadTimeoutSec)
    /\ \E now \in IndexedNow :
         \/ /\ lastObs' = "raised"
            /\ indexing' = now
            /\ elapsed' = elapsed + Latency + PollInterval
            /\ UNCHANGED <<pc, status, calls>>
         \/ \E shows \in BOOLEAN, others \in OtherStatuses :
              LET full == Listing(get_active_vector_store_id, now, others)
                  data == IF shows THEN full
                          ELSE SelectSeq(full, LAMBDA f : f.id # created)
                  r == ScanListing(data, created)
              IN /\ lastObs' = Observed(data, created)
                 /\ IF r # ""
                    THEN /\ status' = r
                         /\ pc' = "up_record"
                         /\ indexing' = ""
                         /\ elapsed' = elapsed + Latency
                         /\ calls' = Append(calls, Call("wait_until_file_indexed", active, created, TRUE))
                    ELSE /\ indexing' = now
                         /\ elapsed' = elapsed + Latency + PollInterval
                         /\ UNCHANGED <<pc, status, calls>>
    /\ UNCHANGED <<session, vstores, nextStore, vsfiles, fobjs, nextFile, pressed, stores,
                   ri, delLocals, uploaded_files, ui, created, results, findLocals, msgs,
                   reruns, deletedStores>>

\* line 272: the loop condition is false
WaitTimeout ==
    /\ pc = "wait"
    /\ UNCHANGED events
    /\ ~WithinTimeout(elapsed, UploadTimeoutSec)
    /\ status' = "timeout"
    /\ pc' = "up_record"
    /\ indexing' = ""
    /\ calls' = Append(calls, Call("wait_until_file_indexed", active, created, TRUE))
    /\ UNCHANGED <<session, vstores, nextStore, vsfiles, fobjs, nextFile, pressed, stores,
                   ri, delLocals, uploaded_files, ui, created, elapsed, results, lastObs,
                   findLocals, msgs, reruns, deletedStores>>

\* line 307
UploadRecord ==
    /\ pc = "up_record"
    /\ UNCHANGED events
    /\ results' = Append(results, [name |-> ui, fid |-> created, status |-> status])
    /\ ui' = ui + 1
    /\ pc' = "up_file"
    \* the wait is over and its locals are gone
    /\ elapsed' = 0 /\ lastObs' = "none" /\ status' = ""
    /\ UNCHANGED <<session, remote, pressed, stores,
                   ri, delLocals, uploaded_files, created, findLocals, msgs, calls,
                   reruns, deletedStores>>

\* lines 310-312
UploadDone ==
    /\ pc = "up_file"
    /\ UNCHANGED events
    /\ ui > uploaded_files
    /\ msgs' = msgs \cup {Msg("success", "upload_finished", Len(results))}
    /\ pc' = "idle"
    /\ UNCHANGED <<session, remote, pressed, stores, ri, delLocals, upLocals, findLocals,
                   calls, reruns, deletedStores>>

\* ---------------------------------------------------------------- Next
Next ==
    \/ \E k \in {"", "sk"} : SetApiKey(k)
    \/ \E t \in UserTexts : FindProgram(t)
    \/ CreateStore
    \/ Refresh
    \/ \E vs \in StoreIds : PressSetActive(vs)
    \/ \E vs \in StoreIds : PressDeleteStore(vs)
    \/ \E vs \in StoreIds : ToggleShowFiles(vs)
    \/ \E vs \in StoreIds, fid \in FileIds : PressFileDelete(vs, fid)
    \/ \E n \in 0..MaxUpload : PressUpload(n)
    \/ ListStores
    \/ Row
    \/ DeleteFileStep
    \/ DeleteStoreStep
    \/ ShowFiles
    \/ UploadStart
    \/ UploadCreate
    \/ UploadAttach
    \/ WaitPoll
    \/ WaitTimeout
    \/ UploadRecord
    \/ UploadDone

Spec == Init /\ [][Next]_vars

\* The script runs on once the wait has begun: the listing call and
\* time.sleep return, so an iteration of the loop of line 258 that can be
\* taken is taken.
FairSpec == Spec /\ WF_vars(WaitPoll) /\ WF_vars(WaitTimeout)

\* ================================================================ claims
HasMsg(kind, tag) == \E m \in msgs : m.kind = kind /\ m.tag = tag
HasMsgFor(kind, tag, arg) == Msg(kind, tag, arg) \in msgs
CallsOf(op) == SelectSeq(calls, LAMBDA c : c.op = op)
Last(s) == s[Len(s)]

\* the state right after the Find Program handler, lines 36-102
FindDone == pc = "list" /\ pressed.btn = "find"
\* the state right after the Create New Vector Store handler, lines 125-134
CreateDone == pc = "list" /\ pressed.btn = "create"
\* the run an Upload press started is over
UploadRunDone == pc = "idle" /\ pressed.btn = "upload"
\* the "set your API key" error of lines 40, 128, 177, 288
AuthErrorShown == HasMsg("error", "api_key_not_set") \/ HasMsg("error", "set_api_key")

C2_AsStated ==
    (FindDone /\ active = None)
        => (HasMsg("error", "no_active_store") /\ CallsOf("responses.create") = <<>>)

\* C2 amended: with no active store, Find Program never calls the
\* completion service; it surfaces the "no active vector store" error
\* exactly when the trimmed query is non-empty and an API key is set (an
\* empty query gets the input warning, a missing key the API-key error).
C2_NoActiveStore ==
    (FindDone /\ active = None) =>
        /\ CallsOf("responses.create") = <<>>
        /\ HasMsg("error", "no_active_store")
               <=> (Strip(user_text) # <<>> /\ apiKey # "")

\* C2 witness: a non-empty query with a key and no active store was refused.
C2_Witness ==
    /\ FindDone /\ active = None /\ apiKey # "" /\ Strip(user_text) # <<>>
    /\ HasMsg("error", "no_active_store") /\ calls = <<>>

\* C5 as stated: whenever the structured traversal fails, the text is the
\* non-empty stringified completion and the citation list is empty.
C5_AsStated ==
    (FindDone /\ parseFailed)
        => (output_text = Stringify(resp) /\ output_text # <<>> /\ citations = <<>>)

\* C3: the wait returns "completed" when a poll shows the awaited file as
\* completed or finished, the status verbatim when a poll shows it failed
\* or error, and "timeout" when no poll before the deadline showed it in a
\* terminal status (the file absent from the listing included); a poll
\* that shows a terminal status ends the wait.
Terminal == {"completed", "finished", "failed", "error"}
C3_WaitResult ==
    /\ pc = "wait" => lastObs \notin Terminal
    /\ pc = "up_record" =>
         /\ status = "completed" <=> lastObs \in {"completed", "finished"}
         /\ status \in {"failed", "error"} <=> lastObs \in {"failed", "error"}
         /\ status \in {"failed", "error"} => status = lastObs
         /\ status = "timeout" <=> lastObs \notin Terminal
         /\ status = "timeout" => elapsed >= UploadTimeoutSec
         /\ status # "timeout" => elapsed - Latency < UploadTimeoutSec

\* C3 witness: a second poll showed the file as finished and the wait
\* returned "completed".
C3_Witness ==
    /\ pc = "up_record" /\ status = "completed" /\ lastObs = "finished"
    /\ elapsed > Latency

\* C8: the wait ends with one of four values and lets no exception out: a
\* poll that raises is followed by the sleep and the next iteration, every
\* iteration that does not return moves the clock on by at least the poll
\* interval, and at the deadline the only step is the return of "timeout".
C8_Values ==
    /\ pc = "up_record" => status \in {"completed", "failed", "error", "timeout"}
    /\ pc = "wait" => elapsed < UploadTimeoutSec + Latency + PollInterval
    /\ (pc = "up_record" /\ lastObs = "raised") =>
         (status = "timeout" /\ ~HasMsgFor("error", "upload_failed", ui))
C8_Step ==
    pc = "wait" =>
        /\ pc' \in {"wait", "up_record"}
        /\ elapsed >= UploadTimeoutSec => (pc' = "up_record" /\ status' = "timeout")
        /\ pc' = "wait" => elapsed' >= elapsed + PollInterval
        /\ (elapsed < UploadTimeoutSec /\ lastObs' = "raised") =>
             (pc' = "wait" /\ elapsed' = elapsed + Latency + PollInterval /\ msgs' = msgs)
C8_WaitEnds ==
    /\ [](C8_Values)
    /\ [][C8_Step]_vars
    /\ (pc = "wait") ~> (pc = "up_record")

\* C8 witness: the last poll raised and the wait returned "timeout".
C8_Witness == pc = "up_record" /\ status = "timeout" /\ lastObs = "raised"

\* C4: Delete Store calls detach and file-delete for each file of the
\* listing, in listing order, whatever the outcomes, then the store
\* deletion; it reports the failure of the operation only when the store
\* deletion itself failed.
Shape(c) == <<c.op, c.vs, c.fid>>
Shapes(cs) == [i \in 1..Len(cs) |-> Shape(cs[i])]
Suffix(cs, n) == SubSeq(cs, Len(cs) - n + 1, Len(cs))
RECURSIVE FilePairs(_, _, _)
FilePairs(vs, rs, k) ==
    IF k = 0 THEN <<>>
    ELSE FilePairs(vs, rs, k - 1)
         \o << <<"vector_stores.files.delete", vs, rs[k]>>, <<"files.delete", 0, rs[k]>> >>
DeleteAttempts(vs, rs, k) == << <<"vector_stores.files.list", vs, 0>> >> \o FilePairs(vs, rs, k)
Count(cs, op, ok) == Len(SelectSeq(cs, LAMBDA c : c.op = op /\ c.ok = ok))

C4_DeleteStore ==
    /\ pc = "del_loop" =>
         LET vs == stores[ri]
             n == 2 * (di - 1) + 1
         IN /\ Len(calls) >= n
            /\ Shapes(Suffix(calls, n)) = DeleteAttempts(vs, refs, di - 1)
            /\ di = 1 => refs = IF Last(calls).ok THEN vsfiles[vs] ELSE <<>>
            /\ deleted_files = Count(Suffix(calls, n), "files.delete", TRUE)
            /\ \A f \in Range(refs) :
                 HasMsgFor("warning", "file_delete_failed", f)
                    <=> \E c \in Range(Suffix(calls, n)) :
                          c.op = "files.delete" /\ c.fid = f /\ ~c.ok
            /\ ~HasMsg("error", "delete_store_failed")
    /\ (calls # <<>> /\ Last(calls).op = "vector_stores.delete") =>
         LET vs == Last(calls).vs
             n == 2 * Len(refs) + 2
         IN /\ Len(calls) >= n
            /\ Shapes(Suffix(calls, n))
                 = Append(DeleteAttempts(vs, refs, Len(refs)), <<"vector_stores.delete", vs, 0>>)
            /\ Last(calls).ok <=> ~HasMsgFor("error", "delete_store_failed", vs)
            /\ Last(calls).ok <=> vs \notin vstores
    /\ \A m \in msgs :
         m.tag = "delete_store_failed"
            => \E c \in Range(calls) : c = Call("vector_stores.delete", m.arg, 0, FALSE)

\* C4 witness: a store with two files was deleted although the detach and
\* the delete of its first file failed; the second file was deleted.
C4_Witness ==
    /\ calls # <<>> /\ Last(calls) = Call("vector_stores.delete", Last(calls).vs, 0, TRUE)
    /\ Len(refs) = 2 /\ deleted_files = 1
    /\ \E c \in Range(calls) : c.op = "vector_stores.files.delete" /\ c.fid = refs[1] /\ ~c.ok
    /\ \E c \in Range(calls) : c.op = "files.delete" /\ c.fid = refs[1] /\ ~c.ok
    /\ \E c \in Range(calls) : c.op = "files.delete" /\ c.fid = refs[2] /\ c.ok

\* C6 as stated: one "Vector store not found" failure of a listing causes
\* one automatic rerun and, when the error persists on the retry, no further
\* one: a user action is followed by at most one automatic refresh.
C6_AsStated == reruns <= 1

\* C7: the files of an upload are handled one after the other, each one's
\* upload, attach and wait before the next one's upload; every chosen file
\* is attempted whatever happened to the earlier ones; a failed upload or
\* attach is reported for its own file, and a "timeout" of the wait is that
\* file's recorded status, not a failure.
UploadOps == {"files.create", "vector_stores.files.create", "wait_until_file_indexed"}
UploadCalls == SelectSeq(calls, LAMBDA c : c.op \in UploadOps)
HasResult(k) == \E i \in 1..Len(results) : results[i].name = k
UploadFinished == pc = "idle" /\ HasMsg("success", "upload_finished")
C7_Sequential ==
    pressed.btn = "upload" =>
        LET U == UploadCalls
            creates == CallsOf("files.create")
        IN /\ \A k \in 1..Len(creates) : creates[k].vs = k
           /\ \A i \in 1..Len(U) :
                /\ U[i].op = "vector_stores.files.create" =>
                     (i > 1 /\ U[i-1].op = "files.create" /\ U[i-1].ok /\ U[i-1].fid = U[i].fid)
                /\ U[i].op = "wait_until_file_indexed" =>
                     (i > 1 /\ U[i-1].op = "vector_stores.files.create" /\ U[i-1].ok
                      /\ U[i-1].fid = U[i].fid)
                /\ (U[i].op = "files.create" /\ i > 1) =>
                     \/ U[i-1].op = "wait_until_file_indexed"
                     \/ (U[i-1].op # "wait_until_file_indexed" /\ ~U[i-1].ok)
           /\ \A i \in 1..Len(results) :
                /\ results[i].status \in {"completed", "failed", "error", "timeout"}
                /\ ~HasMsgFor("error", "upload_failed", results[i].name)
           /\ UploadFinished =>
                /\ Len(creates) = uploaded_files
                /\ \A k \in 1..uploaded_files :
                     /\ HasResult(k) <=> ~HasMsgFor("error", "upload_failed", k)
                     /\ HasResult(k) <=>
                          \E c \in Range(U) :
                            c.op = "wait_until_file_indexed" /\ creates[k].ok
                            /\ c.fid = creates[k].fid

\* C7 witness: of two files the first failed to upload and the second was
\* uploaded, attached and waited for until the timeout.
C7_Witness ==
    /\ pressed.btn = "upload" /\ UploadFinished /\ uploaded_files = 2
    /\ HasMsgFor("error", "upload_failed", 1)
    /\ \E i \in 1..Len(results) : results[i].name = 2 /\ results[i].status = "timeout"

\* C9: when the file object was created and the attach call failed, the
\* object stays in the file service, attached to no store; it is not
\* deleted, not waited for and not recorded, and the failure is reported
\* for its file.
C9_Orphan ==
    pressed.btn = "upload" =>
        \A i \in 1..Len(calls) :
            (calls[i].op = "vector_stores.files.create" /\ ~calls[i].ok) =>
                LET f == calls[i].fid
                IN /\ f \in fobjs
                   /\ \A vs \in StoreIds : f \notin Range(vsfiles[vs])
                   /\ \A c \in Range(calls) :
                        c.fid = f => c.op \in {"files.create", "vector_stores.files.create"}
                   /\ \A j \in 1..Len(results) : results[j].fid # f
                   /\ \E c \in Range(calls) :
                        /\ c.op = "files.create" /\ c.fid = f /\ c.ok
                        /\ HasMsgFor("error", "upload_failed", c.vs)

\* C9 witness: an upload run ended with a file whose attach had failed.
C9_Witness ==
    /\ UploadRunDone
    /\ \E c \in Range(calls) : c.op = "vector_stores.files.create" /\ ~c.ok

\* C10: the active store id changes only by a successful Create New Vector
\* Store (to the new id), by Set Active (to the chosen id) and by a
\* successful Delete Store of the active store (to None); a successful
\* deletion of another store leaves it alone, and the active id is never a
\* store whose deletion succeeded.
C10_Change ==
    active' # active =>
        \/ /\ pc = "idle" /\ pressed'.btn = "create"
           /\ active' = nextStore /\ active' \in vstores' \ vstores
        \/ /\ pc = "rows" /\ pressed = Btn("set_active", active', 0)
           /\ stores[ri] = active'
        \/ /\ pc = "del_loop" /\ active' = None
           /\ active = stores[ri] /\ active \in vstores \ vstores'
C10_Delete ==
    (vstores' # vstores /\ vstores' \subseteq vstores) =>
        active' = IF active \in vstores \ vstores' THEN None ELSE active
C10_ActiveStore ==
    [](active \notin deletedStores) /\ [][C10_Change /\ C10_Delete]_vars

\* C10 witness: a store other than the active one was deleted and the
\* active id is still set.
C10_Witness == deletedStores # {} /\ active # None /\ active \in vstores

====
